---- MODULE Spec2Model ----
(***************************************************************************)
(* MockLLMProvider (core/framework/llm/mock.py): the mock streaming        *)
(* engine.  One engine instance, its scenario list, its call index and     *)
(* its stream_calls ledger; every stream() call is an async generator      *)
(* object whose body runs only while the caller pulls from it.             *)
(*                                                                         *)
(* Text (content, snapshot, full_text) is a sequence of one-character      *)
(* strings so that splitting and concatenation are computed.  Other        *)
(* strings (stop reasons, names, prompts) are opaque.                      *)
(***************************************************************************)
EXTENDS Integers, Sequences, FiniteSets, TLC

VARIABLES model, scenarios, call_index, stream_calls, gens,
          other, returned, authored

\* model, scenarios, call_index, stream_calls: the attributes of the engine
\*   instance the caller is addressing (self); gens: the generator objects
\*   its stream() calls returned
\* other: the caller's other engine instances, each with its generators
\* returned: what the last complete(), complete_with_tools() or pull of an
\*   exhausted generator handed back to the caller
\* authored: the helper calls that built the scenarios, when helpers did
aside == <<other, returned, authored>>

vars == <<model, scenarios, call_index, stream_calls, gens, aside>>

(***************************************************************************)
(* Bounds of the model.                                                    *)
(***************************************************************************)
\* stream() calls made in one behaviour on an engine with scenarios
MaxCalls == 3
\* stream() calls made in one behaviour on an engine without scenarios
MaxFallbackCalls == 2
\* generator objects the caller holds unfinished at the same time
MaxLive == 2
\* stream() calls made on two engines together
MaxTwoCalls == 3
\* stream() calls made on an engine that also serves complete()
MaxCallsBesideComplete == 2

(***************************************************************************)
(* Event vocabulary (framework.llm.stream_events).                         *)
(***************************************************************************)
TextDeltaEvent(content, snapshot) ==
    [type |-> "text_delta", content |-> content, snapshot |-> snapshot]

TextEndEvent(full_text) ==
    [type |-> "text_end", full_text |-> full_text]

ToolCallEvent(tool_use_id, tool_name, tool_input) ==
    [type |-> "tool_call", tool_use_id |-> tool_use_id,
     tool_name |-> tool_name, tool_input |-> tool_input]

FinishEvent(stop_reason, input_tokens, output_tokens, model_name) ==
    [type |-> "finish", stop_reason |-> stop_reason,
     input_tokens |-> input_tokens, output_tokens |-> output_tokens,
     model |-> model_name]

StreamErrorEvent(error, recoverable) ==
    [type |-> "error", error |-> error, recoverable |-> recoverable]

\* token count of a FinishEvent built without input_tokens / output_tokens
FinishDefaultTokens == 0

IsTerminal(e) == e.type \in {"finish", "error"}

(***************************************************************************)
(* Scenario helpers.                                                       *)
(***************************************************************************)
text_scenario(text, input_tokens, output_tokens) ==
    << TextDeltaEvent(text, text),
       FinishEvent("stop", input_tokens, output_tokens, "mock") >>

\* a helper that puts the text delta in front whatever the text is
ToolCallScenarioAlwaysText(tool_name, tool_input, tool_use_id, text) ==
    << TextDeltaEvent(text, text) >>
    \o << ToolCallEvent(tool_use_id, tool_name, tool_input) >>
    \o << FinishEvent("tool_calls", 10, 5, "mock") >>

tool_call_scenario(tool_name, tool_input, tool_use_id, text) ==
    (IF text # <<>> THEN << TextDeltaEvent(text, text) >> ELSE <<>>)
    \o << ToolCallEvent(tool_use_id, tool_name, tool_input) >>
    \o << FinishEvent("tool_calls", 10, 5, "mock") >>

error_scenario(error, recoverable) ==
    << StreamErrorEvent(error, recoverable) >>

(***************************************************************************)
(* Text: sequences of characters.                                          *)
(***************************************************************************)
SPACE == " "

\* "".join(parts)
RECURSIVE Concat(_)
Concat(parts) ==
    IF parts = <<>> THEN <<>> ELSE Head(parts) \o Concat(Tail(parts))

\* index of the first sep in s, 0 when there is none
RECURSIVE Find(_, _, _)
Find(s, sep, from) ==
    IF from > Len(s) THEN 0
    ELSE IF s[from] = sep THEN from
    ELSE Find(s, sep, from + 1)

\* str.split(sep) for a one-character sep: every occurrence separates, so
\* the result is never empty and may hold empty words
RECURSIVE Split(_, _)
Split(s, sep) ==
    LET k == Find(s, sep, 1)
    IN  IF k = 0 THEN << s >>
        ELSE << SubSeq(s, 1, k - 1) >> \o Split(SubSeq(s, k + 1, Len(s)), sep)

(***************************************************************************)
(* _extract_output_keys / _generate_mock_response.  System prompts are     *)
(* opaque; the key extraction is tabulated on the prompts the model uses.  *)
(***************************************************************************)
extract_output_keys(system) ==
    IF system \in {"keys: name", "Generate JSON with keys: name"}
    THEN << <<"n", "a", "m", "e">> >>
    ELSE <<>>

\* json.dumps({key: "mock_<key>_value" ...}, indent=2)
RECURSIVE JsonItems(_)
JsonItems(keys) ==
    IF keys = <<>> THEN <<>>
    ELSE <<"\n", " ", " ", "\"">> \o Head(keys) \o <<"\"", ":", " ", "\"">>
         \o <<"m", "o", "c", "k", "_">> \o Head(keys)
         \o <<"_", "v", "a", "l", "u", "e", "\"">>
         \o (IF Len(keys) > 1 THEN <<",">> ELSE <<>>)
         \o JsonItems(Tail(keys))

JsonDumps(keys) == <<"{">> \o JsonItems(keys) \o <<"\n", "}">>

\* json.dumps({"result": "mock_result_value"}, indent=2)
GenericJson ==
    <<"{", "\n", " ", " ", "\"", "r", "e", "s", "u", "l", "t", "\"", ":", " ",
      "\"", "m", "o", "c", "k", "_", "r", "e", "s", "u", "l", "t", "_",
      "v", "a", "l", "u", "e", "\"", "\n", "}">>

\* "This is a mock response for testing purposes."
PlainMockResponse ==
    << "T", "h", "i", "s", " ", "i", "s", " ", "a", " ", "m", "o", "c",
       "k", " ", "r", "e", "s", "p", "o", "n", "s", "e", " ", "f", "o",
       "r", " ", "t", "e", "s", "t", "i", "n", "g", " ", "p", "u", "r",
       "p", "o", "s", "e", "s", "." >>

generate_mock_response(system, json_mode) ==
    IF json_mode
    THEN LET keys == extract_output_keys(system)
         IN  IF keys # <<>> THEN JsonDumps(keys) ELSE GenericJson
    ELSE PlainMockResponse

(***************************************************************************)
(* Inputs: engine constructions and stream() arguments.                    *)
(***************************************************************************)
ModelNames == {"mock-model", "gpt-test"}

HI == <<"h", "i">>

ScnText == text_scenario(HI, 10, 5)
ScnCustomTokens == text_scenario(<<"o", "k">>, 100, 50)
ScnTool == tool_call_scenario("search", "query=test", "call_1", <<>>)
ScnToolText == tool_call_scenario("run", "cmd=ls", "custom_123", <<"o", "k">>)
ScnError == error_scenario("Connection lost", FALSE)
ScnRateLimit == error_scenario("Rate limit", TRUE)
\* hand-written scenarios, as a test author may pass them
ScnEmpty == <<>>
ScnNoTerminal == << TextDeltaEvent(HI, HI) >>
ScnTextEnd ==
    << TextDeltaEvent(<<"h">>, <<"h">>), TextDeltaEvent(<<"i">>, HI),
       TextEndEvent(HI), FinishEvent("stop", 10, 5, "mock") >>
ScnBadTextEnd ==
    << TextDeltaEvent(HI, HI), TextEndEvent(<<"h">>), TextEndEvent(HI),
       FinishEvent("stop", 10, 5, "mock") >>
ScnAfterTerminal ==
    << FinishEvent("stop", 10, 5, "mock"), StreamErrorEvent("late", FALSE) >>

ScenarioLists ==
    { << ScnText, ScnToolText >>,
      << ScnCustomTokens >>,
      << ScnTool, ScnError, ScnText >>,
      << ScnTextEnd, ScnRateLimit >>,
      << ScnEmpty, ScnNoTerminal >>,
      << ScnBadTextEnd, ScnAfterTerminal >> }

None == [kind |-> "None"]
ToolList(items) == [kind |-> "list", items |-> items]

\* an optional keyword argument: passed with a value, or left out
Given(v) == [given |-> TRUE, val |-> v]
Omitted == [given |-> FALSE]
Bind(arg, default) == IF arg.given THEN arg.val ELSE default

\* the arguments of one stream() call: messages, system, tools, max_tokens
CallArguments ==
    { << <<"hi">>, Omitted, Omitted, Omitted >>,
      << <<"hi", "more">>, Given("Be helpful"), Given(ToolList(<<"search">>)),
         Given(16) >>,
      << <<"hi">>, Given("keys: name"), Given(None), Given(1) >> }

(***************************************************************************)
(* MockLLMProvider.__init__                                                *)
(***************************************************************************)
\* MockLLMProvider(model, scenarios): the scenarios argument is left out
\* (None), an empty list, or a list of scenarios
Constructions ==
    (ModelNames \X {Omitted, Given(<<>>)})
    \cup ({"mock-model"} \X { Given(l) : l \in ScenarioLists })

\* line 53: scenarios or []
ScenariosOrEmpty(arg) == IF arg.given /\ arg.val # <<>> THEN arg.val ELSE <<>>

NoResult == [op |-> "none"]

\* the attributes of a new instance, lines 52-55
Construct(c) ==
    /\ model = c[1]
    /\ scenarios = ScenariosOrEmpty(c[2])
    /\ call_index = 0
    /\ stream_calls = <<>>

Init ==
    /\ \E c \in Constructions : Construct(c)
    /\ gens = <<>>
    /\ other = <<>>
    /\ returned = NoResult
    /\ authored = <<>>

(***************************************************************************)
(* stream(): calling the async generator function binds the arguments and  *)
(* returns a generator object; no line of the body has run yet.            *)
(*   pc  "created"         not yet pulled                                  *)
(*       "in_scenario"     suspended at the yield of line 221              *)
(*       "in_fallback"     suspended at the yield of line 230              *)
(*       "after_text_end"  suspended at the yield of line 231              *)
(*       "after_finish"    suspended at the yield of line 232              *)
(*       "closed"          the body has returned                           *)
(*       "raised"          an exception left the body                      *)
(* max_tokens is the fourth parameter (default 4096, line 203); the body   *)
(* never reads it.                                                         *)
(* History, read by no action: call (the arguments as the caller gave      *)
(* them), out (the events handed to the caller so far), rec (the position  *)
(* of the record this invocation appended, 0 before) and alone (every      *)
(* earlier invocation was closed when this one was called).                *)
(***************************************************************************)
Live == { g \in 1..Len(gens) : gens[g].pc # "closed" }

NewGenerator(messages, system, tools, call) ==
    [messages |-> messages, system |-> system, tools |-> tools,
     max_tokens |-> Bind(call[4], 4096),
     pc |-> "created", events |-> <<>>, pos |-> 0,
     words |-> <<>>, i |-> 0, accumulated |-> <<>>,
     call |-> call, out |-> <<>>, rec |-> 0, alone |-> (Live = {})]

Stream(messages, systemArg, toolsArg, maxTokensArg) ==
    /\ Len(gens) < (IF scenarios = <<>> THEN MaxFallbackCalls ELSE MaxCalls)
    /\ Cardinality(Live) < MaxLive
    /\ gens' = Append(gens, NewGenerator(messages, Bind(systemArg, ""),
                                         Bind(toolsArg, None),
                                         <<messages, systemArg, toolsArg,
                                           maxTokensArg>>))
    /\ UNCHANGED <<model, scenarios, call_index, stream_calls, aside>>

(***************************************************************************)
(* The body of stream(), one action per resumption (one pull, __anext__,   *)
(* by the caller): it runs from where the generator is suspended to its    *)
(* next yield or to its return.                                            *)
(***************************************************************************)
\* a record that keeps the default for tools instead of the argument
InvocationRecordNoTools(messages, system, tools) ==
    [messages |-> messages, system |-> system, tools |-> None]

\* line 215: the dict appended to self.stream_calls
InvocationRecord(messages, system, tools) ==
    [messages |-> messages, system |-> system, tools |-> tools]

\* a selection that stays on the last scenario instead of cycling
SelectScenarioClamped(scns, index) ==
    scns[IF index < Len(scns) THEN index + 1 ELSE Len(scns)]

\* line 218: self.scenarios[self._call_index % len(self.scenarios)]
SelectScenario(scns, index) == scns[(index % Len(scns)) + 1]

\* an index that counts every started invocation twice
AdvanceIndexTwice(index) == index + 2

\* an index that moves only when a scenario has been replayed to its end
AdvanceIndexForgotten(index) == index

\* line 219: self._call_index += 1
AdvanceIndex(index) == index + 1

\* the separator put after each word instead of before the later ones
ChunkTrailingSpace(i, word) == word \o <<SPACE>>

\* line 228: chunk = word if i == 0 else " " + word
Chunk(i, word) == IF i = 0 THEN word ELSE <<SPACE>> \o word

\* = instead of +=
AccumulateOverwrite(accumulated, chunk) == chunk

\* line 229: accumulated += chunk
Accumulate(accumulated, chunk) == accumulated \o chunk

\* a yield that raises an error event as an exception instead
YieldRaising(gen, e, pc) ==
    IF e.type = "error"
    THEN [gen EXCEPT !.pc = "raised"]
    ELSE [gen EXCEPT !.out = Append(@, e), !.pc = pc]

\* a resumption that hands the caller the event twice
YieldPair(gen, e, pc) == [gen EXCEPT !.out = @ \o <<e, e>>, !.pc = pc]

\* the generator suspended at a yield that hands event e to the caller
Yield(gen, e, pc) == [gen EXCEPT !.out = Append(@, e), !.pc = pc]

\* a test that sends every invocation to the scenario branch
UsesScenariosAlways(scns) == TRUE

\* line 217: if self.scenarios
UsesScenarios(scns) == scns # <<>>

\* a first pull that selects and advances but leaves the append for later
StartScenarioNoAppend(g) ==
    /\ gens[g].pc = "created"
    /\ scenarios # <<>>
    /\ call_index' = call_index + 1
    /\ LET events == scenarios[(call_index % Len(scenarios)) + 1]
           started == [gens[g] EXCEPT !.events = events,
                                      !.rec = Len(stream_calls) + 1]
       IN  gens' = [gens EXCEPT ![g] =
               IF events = <<>>
               THEN [started EXCEPT !.pc = "closed"]
               ELSE [started EXCEPT !.pos = 1, !.pc = "in_scenario",
                                    !.out = Append(@, events[1])]]
    /\ UNCHANGED <<model, scenarios, stream_calls, aside>>

\* first pull, scenarios present: lines 215-221 up to the first yield, or
\* to the return when the selected scenario is empty.  The modulo of line
\* 218 raises ZeroDivisionError out of the generator (pc "raised") if it
\* is evaluated on an empty list, after the append of line 215.
StartScenario(g) ==
    /\ gens[g].pc = "created"
    /\ UsesScenarios(scenarios)
    /\ stream_calls' = Append(stream_calls,
           InvocationRecord(gens[g].messages, gens[g].system, gens[g].tools))
    /\ IF Len(scenarios) = 0
       THEN /\ call_index' = call_index
            /\ gens' = [gens EXCEPT ![g].pc = "raised",
                                    ![g].rec = Len(stream_calls) + 1]
       ELSE /\ call_index' = AdvanceIndex(call_index)
            /\ LET events == SelectScenario(scenarios, call_index)
                   started == [gens[g] EXCEPT !.events = events,
                                              !.rec = Len(stream_calls) + 1]
               IN  gens' = [gens EXCEPT ![g] =
                       IF events = <<>>
                       THEN [started EXCEPT !.pc = "closed"]
                       ELSE Yield([started EXCEPT !.pos = 1], events[1],
                                  "in_scenario")]
    /\ UNCHANGED <<model, scenarios, aside>>

\* a loop that stops one event early
NextScenarioEventShort(g) ==
    /\ gens[g].pc = "in_scenario"
    /\ LET gen == gens[g]
       IN  gens' = [gens EXCEPT ![g] =
               IF gen.pos + 1 < Len(gen.events)
               THEN Yield([gen EXCEPT !.pos = @ + 1], gen.events[gen.pos + 1],
                          "in_scenario")
               ELSE [gen EXCEPT !.pc = "closed"]]
    /\ UNCHANGED <<model, scenarios, call_index, stream_calls, aside>>

\* later pull in scenario mode: lines 220-221, the next event or the return
NextScenarioEvent(g) ==
    /\ gens[g].pc = "in_scenario"
    /\ LET gen == gens[g]
       IN  gens' = [gens EXCEPT ![g] =
               IF gen.pos < Len(gen.events)
               THEN Yield([gen EXCEPT !.pos = @ + 1], gen.events[gen.pos + 1],
                          "in_scenario")
               ELSE [gen EXCEPT !.pc = "closed"]]
    /\ UNCHANGED <<model, scenarios, call_index, stream_calls, aside>>

\* lines 227-230, one turn of the loop over words (i is the enumerate index)
WordStep(gen) ==
    LET chunk == Chunk(gen.i, gen.words[gen.i + 1])
        accumulated == Accumulate(gen.accumulated, chunk)
    IN  Yield([gen EXCEPT !.accumulated = accumulated, !.i = @ + 1],
              TextDeltaEvent(chunk, accumulated), "in_fallback")

\* a fallback that asks for the JSON answer
FallbackJsonModeOn == TRUE

\* line 224: json_mode=False
FallbackJsonMode == FALSE

\* first pull, no scenarios: lines 215, 224-230 up to the first yield
StartFallback(g) ==
    /\ gens[g].pc = "created"
    /\ ~UsesScenarios(scenarios)
    /\ stream_calls' = Append(stream_calls,
           InvocationRecord(gens[g].messages, gens[g].system, gens[g].tools))
    /\ LET content == generate_mock_response(gens[g].system, FallbackJsonMode)
           started == [gens[g] EXCEPT !.words = Split(content, SPACE),
                                      !.accumulated = <<>>, !.i = 0,
                                      !.rec = Len(stream_calls) + 1]
       IN  gens' = [gens EXCEPT ![g] = WordStep(started)]
    /\ UNCHANGED <<model, scenarios, call_index, aside>>

\* the TextEndEvent built from the loop variable instead of accumulated
NextFallbackEventLastWord(g) ==
    /\ gens[g].pc = "in_fallback"
    /\ LET gen == gens[g]
       IN  gens' = [gens EXCEPT ![g] =
               IF gen.i < Len(gen.words)
               THEN WordStep(gen)
               ELSE Yield(gen, TextEndEvent(gen.words[Len(gen.words)]),
                          "after_text_end")]
    /\ UNCHANGED <<model, scenarios, call_index, stream_calls, aside>>

\* later pull in the word loop: the next delta (line 230), or the
\* TextEndEvent of line 231 when the words are exhausted
NextFallbackEvent(g) ==
    /\ gens[g].pc = "in_fallback"
    /\ LET gen == gens[g]
       IN  gens' = [gens EXCEPT ![g] =
               IF gen.i < Len(gen.words)
               THEN WordStep(gen)
               ELSE Yield(gen, TextEndEvent(gen.accumulated), "after_text_end")]
    /\ UNCHANGED <<model, scenarios, call_index, stream_calls, aside>>

\* the TextEndEvent ends the stream: the FinishEvent is never yielded
FallbackFinishMissing(g) ==
    /\ gens[g].pc = "after_text_end"
    /\ gens' = [gens EXCEPT ![g].pc = "closed"]
    /\ UNCHANGED <<model, scenarios, call_index, stream_calls, aside>>

\* line 232
FallbackFinish(g) ==
    /\ gens[g].pc = "after_text_end"
    /\ gens' = [gens EXCEPT ![g] =
           Yield(@, FinishEvent("mock_complete", FinishDefaultTokens,
                                FinishDefaultTokens, model), "after_finish")]
    /\ UNCHANGED <<model, scenarios, call_index, stream_calls, aside>>

\* the pull after the last yield: the body returns (StopAsyncIteration)
FallbackReturn(g) ==
    /\ gens[g].pc = "after_finish"
    /\ gens' = [gens EXCEPT ![g].pc = "closed"]
    /\ UNCHANGED <<model, scenarios, call_index, stream_calls, aside>>

\* an exhausted generator that runs its body again on the next pull
PullClosedRestart(g) ==
    /\ gens[g].pc = "closed"
    /\ gens' = [gens EXCEPT ![g].pc = "created"]
    /\ returned' = [op |-> "pull", gen |-> g, raised |-> "StopAsyncIteration"]
    /\ UNCHANGED <<model, scenarios, call_index, stream_calls, other, authored>>

\* a pull on a generator whose body has returned: StopAsyncIteration again
PullClosed(g) ==
    /\ gens[g].pc = "closed"
    /\ returned' = [op |-> "pull", gen |-> g, raised |-> "StopAsyncIteration"]
    /\ UNCHANGED <<model, scenarios, call_index, stream_calls, gens,
                   other, authored>>

Next ==
    \/ \E a \in CallArguments : Stream(a[1], a[2], a[3], a[4])
    \/ \E g \in 1..Len(gens) : StartScenario(g)
    \/ \E g \in 1..Len(gens) : NextScenarioEvent(g)
    \/ \E g \in 1..Len(gens) : StartFallback(g)
    \/ \E g \in 1..Len(gens) : NextFallbackEvent(g)
    \/ \E g \in 1..Len(gens) : FallbackFinish(g)
    \/ \E g \in 1..Len(gens) : FallbackReturn(g)

\* one engine; the caller calls stream() and pulls from the generators
\* until each is exhausted
Spec == Init /\ [][Next]_vars

\* the engines whose exhausted generators are pulled again
RepullConstructions ==
    { <<"mock-model", Omitted>>,
      <<"mock-model", Given(<<ScnText, ScnToolText>>)>>,
      <<"mock-model", Given(<<ScnEmpty, ScnNoTerminal>>)>> }

InitRepull ==
    /\ \E c \in RepullConstructions : Construct(c)
    /\ gens = <<>>
    /\ other = <<>>
    /\ returned = NoResult
    /\ authored = <<>>

NextRepull ==
    \/ Next
    \/ \E g \in 1..Len(gens) : PullClosed(g)

\* one engine; the caller also pulls from generators that are exhausted
SpecRepull == InitRepull /\ [][NextRepull]_vars

\* the arguments of the stream() calls where the caller does something
\* else besides: uses a second engine, calls complete(), uses the helpers
StreamBesideArguments ==
    { a \in CallArguments : a[2] = Given("Be helpful") }

(***************************************************************************)
(* Two engine instances.  `other` holds the instance the caller is not     *)
(* addressing: every attribute of lines 52-55 is an attribute of the       *)
(* instance, and the generators made by an instance belong to it.          *)
(***************************************************************************)
NewEngine(id, c) ==
    [id |-> id, model |-> c[1], scenarios |-> ScenariosOrEmpty(c[2]),
     call_index |-> 0, stream_calls |-> <<>>, gens |-> <<>>]

\* the instance the caller addresses, as a record like the one in `other`
Addressed ==
    [id |-> 3 - other[1].id, model |-> model, scenarios |-> scenarios,
     call_index |-> call_index, stream_calls |-> stream_calls, gens |-> gens]

Engine(id) == IF other[1].id = id THEN other[1] ELSE Addressed

TwoConstructions ==
    { <<"mock-model", Given(<<ScnText, ScnToolText>>)>> }
    \X { <<"gpt-test", Given(<<ScnTool, ScnError, ScnText>>)>>,
         <<"gpt-test", Omitted>> }

InitTwo ==
    /\ \E cc \in TwoConstructions :
          /\ Construct(cc[1])
          /\ other = << NewEngine(2, cc[2]) >>
    /\ gens = <<>>
    /\ returned = NoResult
    /\ authored = <<>>

\* instances whose scenario index is one attribute of the class
SwitchSharedIndex ==
    /\ model' = other[1].model
    /\ scenarios' = other[1].scenarios
    /\ call_index' = call_index
    /\ stream_calls' = other[1].stream_calls
    /\ gens' = other[1].gens
    /\ other' = << [Addressed EXCEPT !.call_index = other[1].call_index] >>
    /\ UNCHANGED <<returned, authored>>

\* the caller turns to the other instance
Switch ==
    /\ model' = other[1].model
    /\ scenarios' = other[1].scenarios
    /\ call_index' = other[1].call_index
    /\ stream_calls' = other[1].stream_calls
    /\ gens' = other[1].gens
    /\ other' = << Addressed >>
    /\ UNCHANGED <<returned, authored>>

\* stream() on the addressed instance
StreamTwo(messages, systemArg, toolsArg, maxTokensArg) ==
    /\ Len(gens) + Len(other[1].gens) < MaxTwoCalls
    /\ Stream(messages, systemArg, toolsArg, maxTokensArg)

NextTwo ==
    \/ Switch
    \/ \E a \in StreamBesideArguments : StreamTwo(a[1], a[2], a[3], a[4])
    \/ \E g \in 1..Len(gens) : StartScenario(g)
    \/ \E g \in 1..Len(gens) : NextScenarioEvent(g)
    \/ \E g \in 1..Len(gens) : StartFallback(g)
    \/ \E g \in 1..Len(gens) : NextFallbackEvent(g)
    \/ \E g \in 1..Len(gens) : FallbackFinish(g)
    \/ \E g \in 1..Len(gens) : FallbackReturn(g)

\* two engines; the caller calls and pulls on either, in any order
SpecTwo == InitTwo /\ [][NextTwo]_vars

(***************************************************************************)
(* The caller keeps the objects it passed.  Line 215 puts the messages     *)
(* and tools objects themselves into the record, not copies: gens[g]       *)
(* .messages and .tools are the contents of the caller's objects, and the  *)
(* record at gens[g].rec, once appended, is made of the same objects.      *)
(***************************************************************************)
\* the ledger after the object in field f of invocation g got contents v
Aliased(g, f, v) ==
    IF gens[g].rec = 0
    THEN stream_calls
    ELSE [stream_calls EXCEPT ![gens[g].rec] = [@ EXCEPT ![f] = v]]

\* the caller appends a message to the list it passed to invocation g
CallerAppendsMessage(g) ==
    /\ gens[g].messages = gens[g].call[1]
    /\ LET grown == Append(gens[g].messages, "later")
       IN  /\ gens' = [gens EXCEPT ![g].messages = grown]
           /\ stream_calls' = Aliased(g, "messages", grown)
    /\ UNCHANGED <<model, scenarios, call_index, aside>>

\* the caller appends a tool to the list it passed to invocation g
CallerAppendsTool(g) ==
    /\ gens[g].tools # None
    /\ gens[g].tools = gens[g].call[3].val
    /\ LET grown == ToolList(Append(gens[g].tools.items, "later"))
       IN  /\ gens' = [gens EXCEPT ![g].tools = grown]
           /\ stream_calls' = Aliased(g, "tools", grown)
    /\ UNCHANGED <<model, scenarios, call_index, aside>>

MutateConstructions ==
    { <<"mock-model", Omitted>>,
      <<"mock-model", Given(<<ScnText, ScnToolText>>)>> }

InitMutate ==
    /\ \E c \in MutateConstructions : Construct(c)
    /\ gens = <<>>
    /\ other = <<>>
    /\ returned = NoResult
    /\ authored = <<>>

NextMutate ==
    \/ Next
    \/ \E g \in 1..Len(gens) : CallerAppendsMessage(g)
    \/ \E g \in 1..Len(gens) : CallerAppendsTool(g)

\* one engine; the caller also changes the lists it passed to stream()
SpecMutate == InitMutate /\ [][NextMutate]_vars

(***************************************************************************)
(* complete() and complete_with_tools(): lines 128-196.  What they return  *)
(* is kept in `returned`.                                                  *)
(***************************************************************************)
\* lines 153-159 and 190-196: the LLMResponse both operations build
LLMResponse(content, model_name) ==
    [content |-> content, model |-> model_name, input_tokens |-> 0,
     output_tokens |-> 0, stop_reason |-> "mock_complete"]

\* line 188: "json" in system.lower() or "output_keys" in system.lower(),
\* tabulated on the prompts the model uses
SuggestsJson(system) == system = "Generate JSON with keys: name"

CompleteSystems == {"", "keys: name", "Generate JSON with keys: name"}

\* a complete() that records its call in the ledger of stream()
CompleteRecording(messages, system, tools, json_mode) ==
    /\ returned' = [op |-> "complete",
                    response |-> LLMResponse(
                        generate_mock_response(system, json_mode), model)]
    /\ stream_calls' = Append(stream_calls,
                              InvocationRecord(messages, system, tools))
    /\ UNCHANGED <<model, scenarios, call_index, gens, other, authored>>

\* lines 151-159
Complete(messages, system, tools, json_mode) ==
    /\ returned' = [op |-> "complete",
                    response |-> LLMResponse(
                        generate_mock_response(system, json_mode), model)]
    /\ UNCHANGED <<model, scenarios, call_index, stream_calls, gens,
                   other, authored>>

\* lines 186-196
CompleteWithTools(messages, system, tools) ==
    /\ returned' = [op |-> "complete_with_tools",
                    response |-> LLMResponse(
                        generate_mock_response(system, SuggestsJson(system)),
                        model)]
    /\ UNCHANGED <<model, scenarios, call_index, stream_calls, gens,
                   other, authored>>

CompleteConstructions ==
    { <<"gpt-test", Omitted>>,
      <<"mock-model", Given(<<ScnText, ScnToolText>>)>> }

InitComplete ==
    /\ \E c \in CompleteConstructions : Construct(c)
    /\ gens = <<>>
    /\ other = <<>>
    /\ returned = NoResult
    /\ authored = <<>>

\* stream() on an engine that also serves complete()
StreamBesideComplete(messages, systemArg, toolsArg, maxTokensArg) ==
    /\ Len(gens) < MaxCallsBesideComplete
    /\ Stream(messages, systemArg, toolsArg, maxTokensArg)

NextComplete ==
    \/ \E a \in StreamBesideArguments :
           StreamBesideComplete(a[1], a[2], a[3], a[4])
    \/ \E g \in 1..Len(gens) : StartScenario(g)
    \/ \E g \in 1..Len(gens) : NextScenarioEvent(g)
    \/ \E g \in 1..Len(gens) : StartFallback(g)
    \/ \E g \in 1..Len(gens) : NextFallbackEvent(g)
    \/ \E g \in 1..Len(gens) : FallbackFinish(g)
    \/ \E g \in 1..Len(gens) : FallbackReturn(g)
    \/ \E sys \in CompleteSystems, jm \in BOOLEAN :
           Complete(<<"hi">>, sys, None, jm)
    \/ \E sys \in CompleteSystems :
           CompleteWithTools(<<"hi">>, sys, ToolList(<<"search">>))

\* one engine; the caller streams and also calls complete() and
\* complete_with_tools()
SpecComplete == InitComplete /\ [][NextComplete]_vars

(***************************************************************************)
(* Engines whose scenarios come from the scenario helpers.  `authored`     *)
(* keeps the helper calls, with the keyword arguments the caller left      *)
(* out, so that the defaults of lines 240, 256-257 and 272 apply.          *)
(***************************************************************************)
HelperCalls ==
    { [helper |-> "text_scenario", args |-> <<t, i, o>>] :
        t \in {HI, <<>>}, i \in {Omitted, Given(0), Given(7)},
        o \in {Omitted, Given(3)} }
    \cup
    { [helper |-> "tool_call_scenario", args |-> <<"search", inp, id, t>>] :
        inp \in {"{}", "{q: x}"}, id \in {Omitted, Given("call_9")},
        t \in {Omitted, Given(<<>>), Given(HI)} }
    \cup
    { [helper |-> "error_scenario", args |-> <<e, r>>] :
        e \in {Omitted, Given("Rate limit")}, r \in {Omitted, Given(TRUE)} }

\* the call of a helper, defaults bound
Build(h) ==
    CASE h.helper = "text_scenario" ->
           text_scenario(h.args[1], Bind(h.args[2], 10), Bind(h.args[3], 5))
      [] h.helper = "tool_call_scenario" ->
           tool_call_scenario(h.args[1], h.args[2], Bind(h.args[3], "call_1"),
                              Bind(h.args[4], <<>>))
      [] h.helper = "error_scenario" ->
           error_scenario(Bind(h.args[1], "Connection lost"),
                          Bind(h.args[2], FALSE))

\* MockLLMProvider(scenarios=[helper(...)])
InitBuilders ==
    /\ \E h \in HelperCalls :
          /\ authored = << h >>
          /\ Construct(<<"mock-model", Given(<< Build(h) >>)>>)
    /\ gens = <<>>
    /\ other = <<>>
    /\ returned = NoResult

NextBuilders ==
    \/ \E a \in StreamBesideArguments : Stream(a[1], a[2], a[3], a[4])
    \/ \E g \in 1..Len(gens) : StartScenario(g)
    \/ \E g \in 1..Len(gens) : NextScenarioEvent(g)

\* one engine replaying a scenario made by a helper
SpecBuilders == InitBuilders /\ [][NextBuilders]_vars

(***************************************************************************)
(* Vocabulary of the properties.                                           *)
(***************************************************************************)
Gens == 1..Len(gens)
Started(g) == gens[g].pc # "created"
Closed(g) == gens[g].pc = "closed"
ScenarioMode == scenarios # <<>>
FallbackMode == scenarios = <<>>

\* the scenario of the k-th invocation in cycle order, k counted from 1
Cycle(k) == scenarios[((k - 1) % Len(scenarios)) + 1]

\* calls 1..k were made and consumed one after another: each of them, and
\* the call after the k-th, was made when every earlier one was consumed
OneAfterAnother(k) == \A j \in Gens : j <= k + 1 => gens[j].alone

IsPrefix(s, t) == Len(s) <= Len(t) /\ s = SubSeq(t, 1, Len(s))

TerminalPositions(evs) == { p \in 1..Len(evs) : IsTerminal(evs[p]) }

\* exactly one terminal event, and it is the last event
OneTerminalLast(evs) ==
    /\ Cardinality(TerminalPositions(evs)) = 1
    /\ IsTerminal(evs[Len(evs)])

\* the TextDeltaEvents among evs[1..p], in order
RECURSIVE DeltasUpTo(_, _)
DeltasUpTo(evs, p) ==
    IF p = 0 THEN <<>>
    ELSE DeltasUpTo(evs, p - 1)
         \o (IF evs[p].type = "text_delta" THEN << evs[p] >> ELSE <<>>)

Contents(deltas) == [k \in 1..Len(deltas) |-> deltas[k].content]

(***************************************************************************)
(* C1  Cycling determinism: on an engine with n >= 1 scenarios, when the   *)
(* calls are made and fully consumed one after another, the k-th call      *)
(* (k from 1) yields exactly scenarios[(k-1) mod n], and after N such      *)
(* calls the call index is N.                                              *)
(***************************************************************************)
C1_CyclingDeterminism ==
    ScenarioMode =>
        \A k \in Gens :
            (OneAfterAnother(k) /\ Closed(k)) =>
                /\ gens[k].out = Cycle(k)
                /\ (k = Len(gens) => call_index = k)

\* [A, B] called three times, one after another: A, B, A and index 3
C1_Witness ==
    /\ Len(scenarios) = 2
    /\ Len(gens) = 3
    /\ OneAfterAnother(3)
    /\ \A k \in Gens : Closed(k)
    /\ gens[3].out = scenarios[1]
    /\ gens[2].out = scenarios[2]
    /\ scenarios[1] # scenarios[2]
    /\ call_index = 3

(***************************************************************************)
(* C2  Terminal invariant.  As claimed: every fully consumed invocation,   *)
(* whatever the scenarios, holds exactly one terminal event, as its last   *)
(* event.                                                                  *)
(***************************************************************************)
C2_TerminalAlways ==
    \A g \in Gens : Closed(g) => OneTerminalLast(gens[g].out)

(***************************************************************************)
(* C2, amended: an invocation in fallback mode, or one whose selected      *)
(* scenario itself holds exactly one terminal event as its last event,     *)
(* never emits an event after a terminal event and, fully consumed, has    *)
(* emitted exactly one terminal event, as its last event.                  *)
(***************************************************************************)
C2_TerminalWhenAuthored ==
    \A g \in Gens :
        (Started(g) /\ (FallbackMode \/ OneTerminalLast(gens[g].events))) =>
            /\ \A p \in TerminalPositions(gens[g].out) : p = Len(gens[g].out)
            /\ Closed(g) => OneTerminalLast(gens[g].out)

\* one engine, both terminal kinds: an invocation ended by its FinishEvent
\* and one ended by its StreamErrorEvent, both pulled once more at the end
C2_Witness ==
    /\ ScenarioMode
    /\ \E g, h \in Gens :
        /\ Closed(g) /\ Closed(h)
        /\ OneTerminalLast(gens[g].events)
        /\ OneTerminalLast(gens[h].events)
        /\ gens[g].out[Len(gens[g].out)].type = "finish"
        /\ gens[h].out[Len(gens[h].out)].type = "error"

(***************************************************************************)
(* C3  As claimed: with scenarios, every stream() call advances the index  *)
(* by one, also when the caller pulls no event: the index is the number    *)
(* of calls made.                                                          *)
(***************************************************************************)
C3_IndexCountsCalls ==
    ScenarioMode => call_index = Len(gens)

(***************************************************************************)
(* C4  As claimed: every stream() call appends one record at call entry,   *)
(* so the ledger is as long as the number of calls made.                   *)
(***************************************************************************)
C4_LedgerCountsCalls ==
    Len(stream_calls) = Len(gens)

(***************************************************************************)
(* C5  As claimed: of two invocations, the one called first has the        *)
(* earlier record and the earlier scenario of the cycle, in whatever       *)
(* order the caller pulls from them.                                       *)
(***************************************************************************)
C5_CallStartOrder ==
    \A g, h \in Gens :
        (g < h /\ Started(g) /\ Started(h)) =>
            /\ gens[g].rec < gens[h].rec
            /\ (ScenarioMode /\ \A j \in 1..h : Started(j)) =>
                   gens[h].events = Cycle(h)

(***************************************************************************)
(* C6  Ledger fidelity: the record an invocation appended holds exactly    *)
(* the messages, system and tools of that call, system "" and tools None   *)
(* where the caller left them out; no two invocations share a record, and  *)
(* the ledger holds nothing but the records of the started invocations.    *)
(* In particular the last record is that of the invocation started last.   *)
(***************************************************************************)
C6_LedgerFidelity ==
    /\ \A g \in Gens :
        Started(g) =>
            /\ gens[g].rec \in 1..Len(stream_calls)
            /\ LET r == stream_calls[gens[g].rec]
                   call == gens[g].call
               IN  /\ r.messages = call[1]
                   /\ r.system = (IF call[2].given THEN call[2].val ELSE "")
                   /\ r.tools = (IF call[3].given THEN call[3].val ELSE None)
    /\ \A g, h \in Gens :
        (Started(g) /\ Started(h) /\ g # h) => gens[g].rec # gens[h].rec
    /\ Len(stream_calls) = Cardinality({ g \in Gens : Started(g) })

\* a consumed call with system and tools given, after a call with other
\* messages that left both out: the last record is the later call's
C6_Witness ==
    \E g, h \in Gens :
        /\ Closed(g) /\ Closed(h)
        /\ ~gens[g].call[2].given /\ ~gens[g].call[3].given
        /\ gens[h].call[2].given /\ gens[h].call[3].given
        /\ gens[h].call[1] # gens[g].call[1]
        /\ gens[h].rec = Len(stream_calls)
        /\ stream_calls[Len(stream_calls)].system = "Be helpful"
        /\ stream_calls[Len(stream_calls)].tools = ToolList(<<"search">>)
        /\ stream_calls[gens[g].rec].tools = None

(***************************************************************************)
(* C7  Verbatim re-emission: with scenarios, what an invocation has        *)
(* emitted is at every moment a prefix of the scenario selected at its     *)
(* start (the one the cycle gives to its record's position), and once it   *)
(* is fully consumed it is exactly that scenario, under every              *)
(* interleaving of the pulls of the live invocations.                      *)
(***************************************************************************)
C7_VerbatimReemission ==
    ScenarioMode =>
        \A g \in Gens :
            Started(g) =>
                /\ IsPrefix(gens[g].out, Cycle(gens[g].rec))
                /\ Closed(g) => gens[g].out = Cycle(gens[g].rec)

\* two invocations live together replay the same scenario to its end
C7_Witness ==
    /\ ScenarioMode
    /\ \E g, h \in Gens :
        /\ g < h
        /\ ~gens[h].alone
        /\ gens[h].rec < gens[g].rec
        /\ Closed(g) /\ Closed(h)
        /\ gens[g].out = gens[h].out
        /\ Len(gens[g].out) >= 2

(***************************************************************************)
(* C8  Fallback shape: on an engine without scenarios a fully consumed     *)
(* invocation has emitted one or more TextDeltaEvents, then one            *)
(* TextEndEvent, then one FinishEvent with stop_reason "mock_complete"     *)
(* and the engine's model name, and nothing else.  The first fragment is   *)
(* a word (no space in it), every later one is a single space followed by  *)
(* a word, and together they spell the mock response.                      *)
(***************************************************************************)
NoSpace(text) == \A k \in 1..Len(text) : text[k] # SPACE

C8_FallbackShape ==
    FallbackMode =>
        \A g \in Gens :
            Closed(g) =>
                LET out == gens[g].out
                    n == Len(out)
                IN  /\ n >= 3
                    /\ \A p \in 1..(n - 2) : out[p].type = "text_delta"
                    /\ out[n - 1].type = "text_end"
                    /\ out[n].type = "finish"
                    /\ out[n].stop_reason = "mock_complete"
                    /\ out[n].model = model
                    /\ NoSpace(out[1].content)
                    /\ \A p \in 2..(n - 2) :
                        /\ Len(out[p].content) >= 1
                        /\ out[p].content[1] = SPACE
                        /\ NoSpace(Tail(out[p].content))
                    /\ Concat([p \in 1..(n - 2) |-> out[p].content])
                         = generate_mock_response(gens[g].system, FALSE)

\* an engine with another model name than the default, fully consumed:
\* eight fragments, the TextEndEvent and the FinishEvent
C8_Witness ==
    /\ FallbackMode
    /\ model = "gpt-test"
    /\ \E g \in Gens :
        /\ Closed(g)
        /\ Len(gens[g].out) = 10
        /\ gens[g].out[2].content = <<" ", "i", "s">>
        /\ gens[g].out[10].model = "gpt-test"

(***************************************************************************)
(* C9  Prefix invariant: in fallback mode the snapshot of the i-th         *)
(* TextDeltaEvent is the concatenation of the contents of deltas 1..i, so  *)
(* every snapshot is a prefix of the next.                                 *)
(***************************************************************************)
C9_PrefixInvariant ==
    FallbackMode =>
        \A g \in Gens :
            LET deltas == DeltasUpTo(gens[g].out, Len(gens[g].out))
            IN  \A k \in 1..Len(deltas) :
                    /\ deltas[k].snapshot
                         = Concat(SubSeq(Contents(deltas), 1, k))
                    /\ k > 1 => IsPrefix(deltas[k - 1].snapshot,
                                         deltas[k].snapshot)

\* an invocation suspended after its third delta, its snapshot "This is a"
C9_Witness ==
    /\ FallbackMode
    /\ \E g \in Gens :
        /\ gens[g].pc = "in_fallback"
        /\ Len(gens[g].out) = 3
        /\ gens[g].out[3].snapshot
             = <<"T", "h", "i", "s", " ", "i", "s", " ", "a">>

(***************************************************************************)
(* C10  Reconciliation.  An event sequence is reconciled when it holds at  *)
(* most one TextEndEvent and the full_text of a TextEndEvent is the        *)
(* concatenation of the contents of the TextDeltaEvents before it and,     *)
(* when there is one, the snapshot of the last of them.                    *)
(***************************************************************************)
Reconciled(evs) ==
    LET ends == { p \in 1..Len(evs) : evs[p].type = "text_end" }
    IN  /\ Cardinality(ends) <= 1
        /\ \A p \in ends :
            LET deltas == DeltasUpTo(evs, p)
            IN  /\ evs[p].full_text = Concat(Contents(deltas))
                /\ deltas # <<>> =>
                     evs[p].full_text = deltas[Len(deltas)].snapshot

\* as claimed: what any invocation has emitted, scenario-driven or
\* fallback, is reconciled
C10_ReconciledAlways ==
    \A g \in Gens : Reconciled(gens[g].out)

\* amended: what an invocation has emitted is reconciled in fallback mode,
\* and in scenario mode when its selected scenario is reconciled as authored
C10_ReconciledWhenAuthored ==
    \A g \in Gens :
        (Started(g) /\ (FallbackMode \/ Reconciled(gens[g].events))) =>
            Reconciled(gens[g].out)

\* a fully consumed fallback invocation: its TextEndEvent carries the
\* whole mock response
C10_Witness ==
    /\ FallbackMode
    /\ \E g \in Gens :
        /\ Closed(g)
        /\ gens[g].out[9].type = "text_end"
        /\ gens[g].out[9].full_text = PlainMockResponse
        /\ gens[g].out[8].snapshot = PlainMockResponse

(***************************************************************************)
(* C11  Empty-store routing: on an engine constructed without scenarios    *)
(* (None or an empty list) no invocation raises, none enters the scenario  *)
(* branch or selects a scenario (the index stays 0, the modulo of line     *)
(* 218 is never evaluated), and every fully consumed invocation has        *)
(* delivered the fallback sequence up to its FinishEvent.                  *)
(***************************************************************************)
C11_EmptyStoreRouting ==
    FallbackMode =>
        /\ call_index = 0
        /\ \A g \in Gens :
            /\ gens[g].pc \notin {"raised", "in_scenario"}
            /\ gens[g].events = <<>>
            /\ Closed(g) =>
                 /\ gens[g].out # <<>>
                 /\ gens[g].out[Len(gens[g].out)].type = "finish"
                 /\ \E p \in 1..Len(gens[g].out) :
                      /\ gens[g].out[p].type = "text_end"
                      /\ gens[g].out[p].full_text = PlainMockResponse

\* two fully consumed invocations with different arguments, the second
\* after the first
C11_Witness ==
    /\ FallbackMode
    /\ Len(gens) = 2
    /\ Closed(1) /\ Closed(2)
    /\ gens[1].call # gens[2].call
    /\ gens[2].call[2].given
    /\ gens[2].rec = 2
    /\ Len(gens[2].out) = 10

(***************************************************************************)
(* C12  Not restartable: an exhausted invocation stays exhausted and its   *)
(* emitted events stay as they are in every step, and a pull on an         *)
(* exhausted invocation ends with StopAsyncIteration, hands over no event  *)
(* and changes neither the scenario index nor the ledger.                  *)
(***************************************************************************)
C12_NotRestartable ==
    [][ /\ \A g \in Gens : Closed(g) => gens'[g] = gens[g]
        /\ returned' # returned =>
             /\ returned'.op = "pull"
             /\ returned'.raised = "StopAsyncIteration"
             /\ Closed(returned'.gen)
             /\ gens' = gens
             /\ call_index' = call_index
             /\ stream_calls' = stream_calls ]_vars

\* an exhausted invocation was pulled again, and another invocation
\* started after it
C12_Witness ==
    /\ returned.op = "pull"
    /\ returned.gen = 1
    /\ Closed(1)
    /\ gens[1].out # <<>>
    /\ Len(gens) = 2
    /\ gens[2].rec = 2
    /\ call_index = 2

(***************************************************************************)
(* C13  Laziness: an invocation that has not been pulled has emitted no    *)
(* event; the step of calling stream() emits no event on any invocation    *)
(* and the new one starts with none; every other step (one pull) makes at  *)
(* most one invocation emit, and that one emits exactly one event.         *)
(***************************************************************************)
C13_Laziness ==
    [][ /\ \A g \in Gens : ~Started(g) => gens[g].out = <<>>
        /\ Len(gens') # Len(gens) =>
             /\ Len(gens') = Len(gens) + 1
             /\ gens'[Len(gens')].out = <<>>
             /\ gens'[Len(gens')].pc = "created"
             /\ \A g \in Gens : gens'[g] = gens[g]
        /\ \A g \in Gens :
             \/ gens'[g].out = gens[g].out
             \/ /\ Len(gens'[g].out) = Len(gens[g].out) + 1
                /\ IsPrefix(gens[g].out, gens'[g].out)
        /\ Cardinality({ g \in Gens : gens'[g].out # gens[g].out }) <= 1
      ]_vars

\* an invocation not yet pulled beside one that was pulled twice
C13_Witness ==
    /\ Len(gens) = 2
    /\ ~Started(1) /\ gens[1].out = <<>>
    /\ Len(gens[2].out) = 2
    /\ ~Closed(2)

(***************************************************************************)
(* C14  Instance independence: with two engines, a step on the addressed   *)
(* engine (a call or a pull) leaves the other engine's index, ledger,      *)
(* model name, scenarios and invocations as they are, turning to the       *)
(* other engine changes neither, and on each engine the index is the       *)
(* number of its own started invocations and the r-th of them replays      *)
(* that engine's scenarios[(r-1) mod n].                                   *)
(***************************************************************************)
OwnHistory(e) ==
    LET started == { g \in 1..Len(e.gens) : e.gens[g].pc # "created" }
    IN  /\ Len(e.stream_calls) = Cardinality(started)
        /\ e.scenarios # <<>> => e.call_index = Cardinality(started)
        /\ \A g \in started :
             /\ e.gens[g].rec \in 1..Len(e.stream_calls)
             /\ e.scenarios # <<>> =>
                  e.gens[g].events =
                    e.scenarios[((e.gens[g].rec - 1) % Len(e.scenarios)) + 1]

C14_InstanceIndependence ==
    /\ [](\A id \in {1, 2} : OwnHistory(Engine(id)))
    /\ [][ /\ \A id \in {1, 2} :
                id = other[1].id => Engine(id)' = Engine(id)
           /\ other'[1].id # other[1].id =>
                \A id \in {1, 2} : Engine(id)' = Engine(id)
           /\ \A id \in {1, 2} : Engine(id)'.model = Engine(id).model
         ]_vars

\* engine 1 made two invocations with one of engine 2 started in between,
\* and engine 1 is addressed again
C14_Witness ==
    /\ other[1].id = 2
    /\ Len(gens) = 2 /\ Len(other[1].gens) = 1
    /\ call_index = 2
    /\ other[1].call_index = 1
    /\ gens[1].alone /\ gens[2].alone
    /\ gens[2].events = scenarios[2]
    /\ other[1].gens[1].events = other[1].scenarios[1]
    /\ model # other[1].model

(***************************************************************************)
(* C15  Append-only ledger: in every step, the caller changing a list it   *)
(* passed included, the ledger before the step is a prefix of the ledger   *)
(* after it (no record changed, none removed).                             *)
(***************************************************************************)
C15_AppendOnly == [][IsPrefix(stream_calls, stream_calls')]_vars

(***************************************************************************)
(* C16  Cancellation: for an invocation g that has handed over k >= 1      *)
(* events of its scenario and is consumed no further, the ledger holds     *)
(* one record, at position gens[g].rec, that is g's and no other           *)
(* invocation's; if g is the last one started the index equals that        *)
(* position (advanced once by g); and the invocation h started next        *)
(* replays scenarios[rec mod n] from that scenario's first event.          *)
(***************************************************************************)
C16_Cancellation ==
    ScenarioMode =>
      \A g \in Gens :
        Len(gens[g].out) >= 1 =>
          /\ gens[g].rec \in 1..Len(stream_calls)
          /\ \A h \in Gens \ {g} : gens[h].rec # gens[g].rec
          /\ gens[g].rec = Len(stream_calls) => call_index = gens[g].rec
          /\ \A h \in Gens :
               gens[h].rec = gens[g].rec + 1 =>
                 /\ call_index >= gens[h].rec
                 /\ gens[h].events = SelectScenario(scenarios, gens[g].rec)
                 /\ gens[h].events # <<>> =>
                      /\ gens[h].out # <<>>
                      /\ gens[h].out[1] = gens[h].events[1]

\* the first invocation abandoned after one of its two events, the next
\* one started on the second scenario
C16_Witness ==
    /\ ScenarioMode
    /\ Len(gens) = 2
    /\ gens[1].pc = "in_scenario"
    /\ Len(gens[1].out) = 1 /\ Len(gens[1].events) = 2
    /\ gens[1].rec = 1 /\ gens[2].rec = 2
    /\ Len(scenarios) = 2
    /\ gens[2].out = << scenarios[2][1] >>
    /\ scenarios[2][1] # scenarios[1][2]
    /\ call_index = 2 /\ Len(stream_calls) = 2

(***************************************************************************)
(* C17  Error injection is data-driven: no invocation ends by an           *)
(* exception; a StreamErrorEvent handed to the caller is, fields and       *)
(* all, the item at the same position of the selected scenario; the        *)
(* fallback hands over none; and the invocation started after one that     *)
(* handed over an error replays the next scenario in cycle order.          *)
(***************************************************************************)
ErrorPositions(evs) == { p \in 1..Len(evs) : evs[p].type = "error" }

C17_ErrorInjection ==
    \A g \in Gens :
        /\ gens[g].pc # "raised"
        /\ FallbackMode => ErrorPositions(gens[g].out) = {}
        /\ \A p \in ErrorPositions(gens[g].out) :
             /\ p <= Len(gens[g].events)
             /\ gens[g].events = Cycle(gens[g].rec)
             /\ gens[g].out[p] = Cycle(gens[g].rec)[p]
        /\ ErrorPositions(gens[g].out) # {} =>
             \A h \in Gens :
                 gens[h].rec = gens[g].rec + 1 =>
                     /\ gens[h].events = Cycle(gens[g].rec + 1)
                     /\ IsPrefix(gens[h].out, gens[h].events)

\* the second invocation handed over the authored error and returned; the
\* third has been consumed to the end of the next scenario
C17_Witness ==
    /\ Len(gens) = 3
    /\ Closed(2)
    /\ gens[2].out = << StreamErrorEvent("Connection lost", FALSE) >>
    /\ gens[2].rec = 2 /\ gens[3].rec = 3
    /\ Closed(3)
    /\ gens[3].out = scenarios[3]
    /\ ErrorPositions(gens[3].out) = {}

(***************************************************************************)
(* C18  Frame of stream(): no step changes the model name or the scenario  *)
(* list; the index and the ledger change only in the step of an            *)
(* invocation's first pull (one record appended, the index advanced by     *)
(* one or, without scenarios, left alone); a step in which complete() or   *)
(* complete_with_tools() returns changes neither index, ledger nor any     *)
(* invocation.                                                             *)
(***************************************************************************)
C18_Frame ==
    [][ /\ model' = model
        /\ scenarios' = scenarios
        /\ (call_index' # call_index \/ stream_calls' # stream_calls) =>
             /\ \E g \in Gens : ~Started(g) /\ gens'[g].pc # "created"
             /\ Len(stream_calls') = Len(stream_calls) + 1
             /\ IsPrefix(stream_calls, stream_calls')
             /\ call_index' = IF ScenarioMode THEN call_index + 1 ELSE 0
        /\ returned' # returned =>
             /\ returned'.op \in {"complete", "complete_with_tools"}
             /\ returned'.response.model = model
             /\ call_index' = call_index
             /\ stream_calls' = stream_calls
             /\ gens' = gens
      ]_vars

\* complete_with_tools() returned a JSON answer while an invocation that
\* advanced the index is half consumed
C18_Witness ==
    /\ returned.op = "complete_with_tools"
    /\ returned.response.content = JsonDumps(<< <<"n", "a", "m", "e">> >>)
    /\ ScenarioMode
    /\ call_index = 1 /\ Len(stream_calls) = 1
    /\ gens[1].pc = "in_scenario"

(***************************************************************************)
(* C19  Scenario builders are well-formed: the scenario built by the       *)
(* helper call kept in `authored` is, for text_scenario, one TextDelta     *)
(* with content = snapshot = text then Finish("stop") with the given (or   *)
(* default 10, 5) token counts; for tool_call_scenario, a TextDelta        *)
(* exactly when text is given and non-empty, then the ToolCallEvent with   *)
(* the given name, input and id (default "call_1"), then                   *)
(* Finish("tool_calls"); for error_scenario, the single StreamErrorEvent   *)
(* (defaults "Connection lost", not recoverable).  It has one terminal     *)
(* event, last; every invocation emits a prefix of it and a fully          *)
(* consumed one emits exactly it.                                          *)
(***************************************************************************)
WellFormed(h, evs) ==
    LET a == h.args
        n == Len(evs)
    IN  CASE h.helper = "text_scenario" ->
               /\ n = 2
               /\ evs[1].type = "text_delta"
               /\ evs[1].content = a[1] /\ evs[1].snapshot = a[1]
               /\ evs[2].type = "finish" /\ evs[2].stop_reason = "stop"
               /\ evs[2].input_tokens = (IF a[2].given THEN a[2].val ELSE 10)
               /\ evs[2].output_tokens = (IF a[3].given THEN a[3].val ELSE 5)
          [] h.helper = "tool_call_scenario" ->
               LET hasText == a[4].given /\ a[4].val # <<>>
               IN  /\ n = (IF hasText THEN 3 ELSE 2)
                   /\ hasText => /\ evs[1].type = "text_delta"
                                 /\ evs[1].content = a[4].val
                                 /\ evs[1].snapshot = a[4].val
                   /\ evs[n - 1].type = "tool_call"
                   /\ evs[n - 1].tool_name = a[1]
                   /\ evs[n - 1].tool_input = a[2]
                   /\ evs[n - 1].tool_use_id =
                        (IF a[3].given THEN a[3].val ELSE "call_1")
                   /\ evs[n].type = "finish"
                   /\ evs[n].stop_reason = "tool_calls"
          [] h.helper = "error_scenario" ->
               /\ n = 1
               /\ evs[1].type = "error"
               /\ evs[1].error =
                    (IF a[1].given THEN a[1].val ELSE "Connection lost")
               /\ evs[1].recoverable = (a[2].given /\ a[2].val)

C19_BuildersWellFormed ==
    /\ Len(authored) = 1 /\ Len(scenarios) = 1
    /\ WellFormed(authored[1], scenarios[1])
    /\ OneTerminalLast(scenarios[1])
    /\ \A g \in Gens :
         /\ IsPrefix(gens[g].out, scenarios[1])
         /\ Closed(g) => gens[g].out = scenarios[1]

\* tool_call_scenario with text and id left out, replayed twice to the end:
\* no text delta, the default id
C19_Witness ==
    /\ authored[1].helper = "tool_call_scenario"
    /\ ~authored[1].args[4].given
    /\ Len(scenarios[1]) = 2
    /\ Len(gens) = 2
    /\ Closed(1) /\ Closed(2)
    /\ gens[2].out = scenarios[1]
    /\ gens[2].out[1].tool_use_id = "call_1"

(***************************************************************************)
(* C20  One step at the first pull: with scenarios, the step in which an   *)
(* invocation receives its first pull appends its record at the end of     *)
(* the ledger, selects scenarios[index mod n] for it and advances the      *)
(* index by one, all in that step; every other step leaves index and       *)
(* ledger alone.  Hence the index and the ledger length both equal the     *)
(* number of started invocations, the invocation with the j-th record (j   *)
(* from 0) replays scenarios[j mod n] and that record is its own, and no   *)
(* two started invocations share a position.                               *)
(***************************************************************************)
FirstPulled == { g \in Gens : Started(g) }

C21_IndexAndLedger ==
    /\ [](/\ call_index <= Len(stream_calls)
          /\ ScenarioMode => call_index = Len(stream_calls)
          /\ FallbackMode =>
               /\ call_index = 0
               /\ Len(stream_calls) =
                    Cardinality({ g \in Gens : Started(g) }))
    /\ [][ /\ call_index' >= call_index
           /\ Len(stream_calls') >= Len(stream_calls)
           /\ (\E g \in Gens : ~Started(g) /\ gens'[g].pc # "created") =>
                Len(stream_calls') = Len(stream_calls) + 1
         ]_vars

\* no scenarios: one invocation called and never pulled, a later one
\* consumed to its end; the ledger has the one record, the index is 0
C21_Witness ==
    /\ FallbackMode
    /\ Len(gens) = 2
    /\ ~Started(1)
    /\ Closed(2)
    /\ Len(stream_calls) = 1
    /\ call_index = 0

(***************************************************************************)
(* C22  The emitted events do not depend on the call arguments: what an    *)
(* invocation has emitted is a prefix of, and once it is consumed to its   *)
(* end equal to, a sequence fixed by the engine alone.  With scenarios     *)
(* that is the scenario at the invocation's position among the started    *)
(* invocations; without, it is the placeholder sentence word by word, its  *)
(* TextEndEvent and the FinishEvent carrying the engine's model name,      *)
(* whatever messages, system (key hints included), tools and max_tokens    *)
(* were passed.  Hence two runs that differ only in the arguments emit     *)
(* the same events.                                                        *)
(***************************************************************************)
\* the positions where the words of the placeholder sentence end
PlainWordEnds ==
    { p \in 1..Len(PlainMockResponse) :
        /\ PlainMockResponse[p] # SPACE
        /\ p = Len(PlainMockResponse) \/ PlainMockResponse[p + 1] = SPACE }

PlainWordEnd(k) ==
    IF k = 0 THEN 0
    ELSE CHOOSE p \in PlainWordEnds :
           Cardinality({ q \in PlainWordEnds : q <= p }) = k

PlainDeltas ==
    [ k \in 1..Cardinality(PlainWordEnds) |->
        TextDeltaEvent(
            SubSeq(PlainMockResponse, PlainWordEnd(k - 1) + 1, PlainWordEnd(k)),
            SubSeq(PlainMockResponse, 1, PlainWordEnd(k))) ]

PlainFallbackEvents(model_name) ==
    PlainDeltas
    \o << TextEndEvent(PlainMockResponse),
          FinishEvent("mock_complete", 0, 0, model_name) >>

\* what the engine alone fixes for the invocation with the r-th record
FixedEvents(r) ==
    IF ScenarioMode THEN Cycle(r) ELSE PlainFallbackEvents(model)

C22_ArgumentsIgnored ==
    \A g \in Gens :
        /\ ~Started(g) => gens[g].out = <<>>
        /\ Started(g) =>
             /\ IsPrefix(gens[g].out, FixedEvents(gens[g].rec))
             /\ Closed(g) => gens[g].out = FixedEvents(gens[g].rec)

\* no scenarios: two invocations with different messages, system (one
\* with key hints), tools and max_tokens consumed to their ends; the
\* events are the same, the records differ
C22_Witness ==
    /\ FallbackMode
    /\ Len(gens) = 2
    /\ Closed(1) /\ Closed(2)
    /\ gens[1].call[2] = Given("keys: name")
    /\ gens[2].call[2] = Given("Be helpful")
    /\ gens[1].call[1] # gens[2].call[1]
    /\ gens[1].tools # gens[2].tools
    /\ gens[1].max_tokens # gens[2].max_tokens
    /\ gens[1].out = gens[2].out
    /\ Len(gens[1].out) = 10
    /\ stream_calls[1] # stream_calls[2]

====
